---- MODULE Spec2Model ----
(***************************************************************************)
(* Model of ClusterEnsembles.py: consensus clustering from several base   *)
(* clusterings (CSPA, MCLA, HBGF, NMF).                                    *)
(*                                                                         *)
(* Conventions.  A matrix is a sequence of rows; positions in a sequence   *)
(* are 1-based as TLA+ has them, while every index the program stores as   *)
(* data (a column id, a node id in adjncy, a class label, an offset in     *)
(* xadj) keeps the program's 0-based value.  So the program's xadj[k] is   *)
(* xadj[k+1] here and its H[i, c] is H[i+1][c+1].                          *)
(***************************************************************************)
EXTENDS Integers, Sequences, FiniteSets, TLC

\* ---------------------------------------------------------------- bounds
MaxN == 3          \* most objects (columns of base_clusters)
MaxR == 2          \* most runs (rows of base_clusters)
MaxCells == 4      \* most entries R*N of base_clusters
MaxNclass == 2     \* largest explicit class count tried
MaxDim == 2        \* largest adjacency matrix handed to to_pymetis_format alone

\* The missing-value sentinel (np.nan): a value outside the labels.
NaN == -1
\* Labels the runs use; not contiguous, so a label and its column id differ.
Labels == {0, 2}
\* Entries of the adjacency matrices handed to to_pymetis_format alone.
FmtEntries == {0, 1, 2}
\* Magnitudes standing for the entries of Q.sqrt(S) after the NMF iteration.
QVals == {0, 1}

VARIABLES
    pc,             \* "idle" | "done" | "raised"  (also "fmt_idle" | "fmt_done")
    base_clusters,  \* the R x N label matrix
    nclass_in,      \* the nclass argument as passed
    solver,         \* the solver argument
    nclass,         \* the class count after defaulting
    H,              \* incidence matrix built by create_hypergraph
    adj_mat,        \* matrix handed to to_pymetis_format
    xadj, adjncy, eweights,   \* what to_pymetis_format returned
    ran,            \* the solver functions entered, in order
    calls,          \* the pymetis.part_graph calls made, in order
    membership,     \* what part_graph returned
    meta_clusters,  \* mcla's accumulated counts
    M,              \* nmf's connectivity matrix
    celabel,        \* the label vector the solver returned
    result,         \* what cluster_ensembles returned
    error           \* the exception that left cluster_ensembles

vars == <<pc, base_clusters, nclass_in, solver, nclass, H, adj_mat, xadj, adjncy,
          eweights, ran, calls, membership, meta_clusters, M, celabel, result, error>>

\* ------------------------------------------------------------ numpy helpers
RECURSIVE SumSeq(_)
SumSeq(s) == IF Len(s) = 0 THEN 0 ELSE Head(s) + SumSeq(Tail(s))

RECURSIVE SortedSeq(_)
SortedSeq(S) ==
    IF S = {} THEN <<>>
    ELSE LET m == CHOOSE x \in S : \A y \in S : x <= y
         IN  <<m>> \o SortedSeq(S \ {m})

isnan(x) == x = NaN

\* np.unique(bc[~np.isnan(bc)]): the distinct non-missing labels, ascending
unique(bc) == SortedSeq({bc[i] : i \in {j \in 1..Len(bc) : ~isnan(bc[j])}})

zeros(r, c) == [i \in 1..r |-> [j \in 1..c |-> 0]]

hstack(A, B) == [i \in 1..Len(A) |-> A[i] \o B[i]]

vstack(A, B) == A \o B

\* A.T for an A of shape (rows, cols)
transpose(A, rows, cols) == [c \in 1..cols |-> [r \in 1..rows |-> A[r][c]]]

\* np.max(v)
npmax(v) == CHOOSE x \in {v[k] : k \in 1..Len(v)} : \A k \in 1..Len(v) : v[k] <= x

\* a faulty variant of nonzero: every position, zero entries included
nonzero_all(row) == [k \in 1..Len(row) |-> k - 1]

\* np.nonzero(row)[0]: the 0-based positions of the non-zero entries, ascending
RECURSIVE nonzeroFrom(_, _)
nonzeroFrom(row, k) ==
    IF k > Len(row) THEN <<>>
    ELSE (IF row[k] # 0 THEN <<k - 1>> ELSE <<>>) \o nonzeroFrom(row, k + 1)

nonzero(row) == nonzeroFrom(row, 1)

\* ------------------------------------------------------- create_hypergraph
\* a faulty variant of bc2id: the label itself taken as the column id
bc2id_label(unique_bc, elem_bc) == elem_bc

\* bc2id[elem_bc]
bc2id(unique_bc, elem_bc) ==
    (CHOOSE k \in 1..Len(unique_bc) : unique_bc[k] = elem_bc) - 1

\* the block h of one run
hblock(bc) ==
    LET unique_bc == unique(bc)
        len_unique_bc == Len(unique_bc)
    IN  [i \in 1..Len(bc) |->
            [c \in 1..len_unique_bc |->
                IF ~isnan(bc[i]) /\ bc2id(unique_bc, bc[i]) = c - 1 THEN 1 ELSE 0]]

RECURSIVE hypergraphFrom(_, _, _)
hypergraphFrom(bcs, r, Hacc) ==
    IF r > Len(bcs) THEN Hacc
    ELSE hypergraphFrom(bcs, r + 1, hstack(Hacc, hblock(bcs[r])))

create_hypergraph(bcs) == hypergraphFrom(bcs, 2, hblock(bcs[1]))

\* -------------------------------------------------------- to_pymetis_format
RECURSIVE pymetisFrom(_, _, _)
pymetisFrom(mat, r, acc) ==
    IF r > Len(mat) THEN acc
    ELSE LET row == mat[r]
             idx == nonzero(row)
             val == [t \in 1..Len(idx) |-> row[idx[t] + 1]]
             adj == acc.adjncy \o idx
         IN  pymetisFrom(mat, r + 1,
                 [xadj |-> Append(acc.xadj, Len(adj)),
                  adjncy |-> adj,
                  eweights |-> acc.eweights \o val])

to_pymetis_format(mat) ==
    pymetisFrom(mat, 1, [xadj |-> <<0>>, adjncy |-> <<>>, eweights |-> <<>>])

\* ------------------------------------------------------ pymetis.part_graph
\* The external partitioner: one part in [0, nparts) per node it was given
\* (the graph has len(xadj) - 1 nodes); [1] of its return value.
part_graph(nparts, xa) == [1..(Len(xa) - 1) -> 0..(nparts - 1)]

\* What a solver leaves behind: the values of its locals and how it ended.
Outcome(fn, h, am, csr, cl, mem, mc, m, cel, err) ==
    [ran |-> <<fn>>, H |-> h, adj_mat |-> am, xadj |-> csr.xadj, adjncy |-> csr.adjncy,
     eweights |-> csr.eweights, calls |-> cl, membership |-> mem,
     meta_clusters |-> mc, M |-> m, celabel |-> cel, error |-> err]

\* a faulty variant of invoke: the call made a second time
invoke_twice(call) == <<call, call>>

\* the call log once part_graph has been called with `call`
invoke(call) == <<call>>

NoCsr == [xadj |-> <<>>, adjncy |-> <<>>, eweights |-> <<>>]

\* --------------------------------------------------------------------- cspa
\* np.dot(H, H.T)
dotHHt(Hm) ==
    [i \in 1..Len(Hm) |-> [j \in 1..Len(Hm) |->
        SumSeq([c \in 1..Len(Hm[i]) |-> Hm[i][c] * Hm[j][c]])]]

cspa(bcs, n) ==
    LET h == create_hypergraph(bcs)
        S == dotHHt(h)
        csr == to_pymetis_format(S)
        call == [nparts |-> n, xadj |-> csr.xadj, adjncy |-> csr.adjncy,
                 eweights |-> csr.eweights, weighted |-> TRUE]
    IN  {Outcome("cspa", h, S, csr, invoke(call), mem, <<>>, <<>>, mem, "none") :
            mem \in part_graph(n, csr.xadj)}
        \cup {Outcome("cspa", h, S, csr, invoke(call), <<>>, <<>>, <<>>, <<>>, "PartitionerError")}

\* --------------------------------------------------------------------- mcla
\* Jaccard distance of two boolean vectors, as the fraction <<num, den>>:
\* the positions where they differ over the positions where either is set
\* (0 when neither is set anywhere).
jaccard(u, v) ==
    LET either == Cardinality({k \in 1..Len(u) : u[k] = 1 \/ v[k] = 1})
        differ == Cardinality({k \in 1..Len(u) : u[k] # v[k]})
    IN  IF either = 0 THEN <<0, 1>> ELSE <<differ, either>>

\* pairwise_distances(X, metric='jaccard') for a non-empty X
pairwise_distances(X) ==
    [a \in 1..Len(X) |-> [b \in 1..Len(X) |-> jaccard(X[a], X[b])]]

\* the factor of S *= 1e3
Scale == 1000

\* a faulty variant of similarity: the distance scaled, not one minus the distance
similarity_dist(dist) ==
    [a \in 1..Len(dist) |-> [b \in 1..Len(dist) |->
        (Scale * dist[a][b][1]) \div dist[a][b][2]]]

\* S = ones - dist; S *= 1e3; S.astype(int): 1000 * (1 - num/den) truncated.
\* The quotient is taken exactly; float rounding can move a weight by one for
\* ratios such as 9/10, and moves none of 0, 1000 or the ratios met here.
similarity(dist) ==
    [a \in 1..Len(dist) |-> [b \in 1..Len(dist) |->
        (Scale * (dist[a][b][2] - dist[a][b][1])) \div dist[a][b][2]]]

\* meta_clusters[:, v] += H[:, i] for every (i, v) of membership
accumulate(Hm, mem, n) ==
    [i \in 1..Len(Hm) |-> [v \in 1..n |->
        SumSeq([e \in 1..Len(mem) |-> IF mem[e] = v - 1 THEN Hm[i][e] ELSE 0])]]

\* a faulty variant of argmaxes: any meta-cluster, maximal or not
argmaxes_any(v) == {k - 1 : k \in 1..Len(v)}

\* np.nonzero(v == np.max(v))[0], as a set
argmaxes(v) == {k - 1 : k \in {j \in 1..Len(v) : v[j] = npmax(v)}}

\* every vector np.random.choice can produce, row by row
choices(mc) == {cel \in [1..Len(mc) -> 0..(Len(mc[1]) - 1)] :
                   \A i \in 1..Len(mc) : cel[i] \in argmaxes(mc[i])}

mcla(bcs, n) ==
    LET h == create_hypergraph(bcs)
        rowH == Len(h)
        colH == Len(h[1])
        X == transpose(h, rowH, colH)
    IN  IF colH = 0
        THEN \* H.T has no row: pairwise_distances validates its input and raises
             \* ValueError for an array of 0 samples, before line 109
             {Outcome("mcla", h, <<>>, NoCsr, <<>>, <<>>, <<>>, <<>>, <<>>, "ValueError_samples")}
        ELSE LET S == similarity(pairwise_distances(X))
                 csr == to_pymetis_format(S)
                 call == [nparts |-> n, xadj |-> csr.xadj, adjncy |-> csr.adjncy,
                          eweights |-> csr.eweights, weighted |-> TRUE]
             IN  UNION {{Outcome("mcla", h, S, csr, invoke(call), mem, accumulate(h, mem, n), <<>>,
                                 cel, "none") :
                             cel \in choices(accumulate(h, mem, n))} :
                        mem \in part_graph(n, csr.xadj)}
                 \cup {Outcome("mcla", h, S, csr, invoke(call), <<>>, <<>>, <<>>, <<>>,
                               "PartitionerError")}

\* --------------------------------------------------------------------- hbgf
\* a faulty variant of drop: the first entries kept instead of the last
drop_tail(mem, colA) == SubSeq(mem, 1, Len(mem) - colA)

\* membership[colA:]
drop(mem, colA) == SubSeq(mem, colA + 1, Len(mem))

hbgf(bcs, n) ==
    LET A == create_hypergraph(bcs)
        rowA == Len(A)
        colA == Len(A[1])
        W == vstack(hstack(zeros(colA, colA), transpose(A, rowA, colA)),
                    hstack(A, zeros(rowA, rowA)))
        csr == to_pymetis_format(W)
        call == [nparts |-> n, xadj |-> csr.xadj, adjncy |-> csr.adjncy,
                 eweights |-> <<>>, weighted |-> FALSE]
    IN  {Outcome("hbgf", A, W, csr, invoke(call), mem, <<>>, <<>>, drop(mem, colA), "none") :
            mem \in part_graph(n, csr.xadj)}
        \cup {Outcome("hbgf", A, W, csr, invoke(call), <<>>, <<>>, <<>>, <<>>, "PartitionerError")}

\* ---------------------------------------------------------------------- nmf
\* a faulty variant of floateq: nan taken as equal to nan
floateq_plain(a, b) == a = b

\* elem_bc == bc, elementwise on floats: nan equals nothing, itself included
floateq(a, b) == ~isnan(a) /\ ~isnan(b) /\ a = b

\* the m of one run: m[i] = np.where(elem_bc == bc, 1, 0)
comembership(bc) ==
    [i \in 1..Len(bc) |-> [j \in 1..Len(bc) |-> IF floateq(bc[i], bc[j]) THEN 1 ELSE 0]]

\* a / b as the fraction <<a, b>>; it is exactly 1.0 iff a = b
fdiv(a, b) == <<a, b>>

create_connectivity_matrix(bcs) ==
    LET n_bcs == Len(bcs)
        len_bcs == Len(bcs[1])
    IN  [i \in 1..len_bcs |-> [j \in 1..len_bcs |->
            fdiv(SumSeq([r \in 1..n_bcs |-> comembership(bcs[r])[i][j]]), n_bcs)]]

\* np.dot(Q, np.sqrt(S)) after orthogonal_nmf_algorithm: some n x nclass matrix
\* of non-negative floats, whatever the random start and the iteration give.
orthogonal_nmf_algorithm(W, n) == [1..Len(W) -> [1..n -> QVals]]

\* a faulty variant of argmax: the 1-based position returned
argmax_onebased(row) == CHOOSE k \in 1..Len(row) : row[k] = npmax(row)

\* np.argmax(row): the first position of the maximum
argmax(row) == (CHOOSE k \in 1..Len(row) :
                   /\ row[k] = npmax(row)
                   /\ \A j \in 1..(k - 1) : row[j] # npmax(row)) - 1

nmf(bcs, n) ==
    LET m == create_connectivity_matrix(bcs)
    IN  {Outcome("nmf", <<>>, <<>>, NoCsr, <<>>, <<>>, <<>>, m,
                 [i \in 1..Len(QS) |-> argmax(QS[i])], "none") :
            QS \in orthogonal_nmf_algorithm(m, n)}

\* -------------------------------------------------------- cluster_ensembles
\* The nclass argument: None, a Python int, or a float (2.0).
NoneArg == [kind |-> "None", val |-> 0]

NclassArgs == {NoneArg}
              \cup {[kind |-> "int", val |-> v] : v \in (-1)..MaxNclass}
              \cup {[kind |-> "float", val |-> 2]}

Solvers == {"cspa", "mcla", "hbgf", "nmf"}

SolverArgs == Solvers \cup {"kmeans"}

\* nclass = -1; for bc in base_clusters: nclass = max(nclass, len(unique(bc)))
RECURSIVE defaultFrom(_, _, _)
defaultFrom(bcs, r, acc) ==
    IF r > Len(bcs) THEN acc
    ELSE LET len_unique_bc == Len(unique(bcs[r]))
         IN  defaultFrom(bcs, r + 1, IF len_unique_bc > acc THEN len_unique_bc ELSE acc)

\* a faulty variant of default_nclass: the first run's count alone
default_nclass_first(bcs) == Len(unique(bcs[1]))

default_nclass(bcs) == defaultFrom(bcs, 1, -1)

\* the value of nclass after "if nclass is None: ..."
defaulted(arg, bcs) ==
    IF arg.kind = "None" THEN [kind |-> "int", val |-> default_nclass(bcs)] ELSE arg

\* a faulty variant of valid_nclass: the isinstance test left out
valid_nclass_anytype(nc) == nc.val > 0

\* isinstance(nclass, int) and nclass > 0
valid_nclass(nc) == nc.kind = "int" /\ nc.val > 0

\* The matrices of R runs over N objects, labels or nan.
Shapes == {sh \in (1..MaxR) \X (1..MaxN) : sh[1] * sh[2] <= MaxCells}

BaseClusterings ==
    UNION {[1..sh[1] -> [1..sh[2] -> Labels \cup {NaN}]] : sh \in Shapes}

Blank ==
    /\ nclass_in = NoneArg /\ solver = "" /\ nclass = NoneArg
    /\ H = <<>> /\ adj_mat = <<>> /\ xadj = <<>> /\ adjncy = <<>> /\ eweights = <<>>
    /\ ran = <<>> /\ calls = <<>> /\ membership = <<>> /\ meta_clusters = <<>> /\ M = <<>>
    /\ celabel = <<>> /\ result = <<>> /\ error = "none"

Init ==
    /\ pc = "idle"
    /\ base_clusters \in BaseClusterings
    /\ Blank

\* cluster_ensembles up to the raise of line 238
RejectNclass ==
    /\ pc = "idle"
    /\ \E arg \in NclassArgs, sv \in SolverArgs :
        /\ ~valid_nclass(defaulted(arg, base_clusters))
        /\ nclass_in' = arg /\ solver' = sv
        /\ nclass' = defaulted(arg, base_clusters)
        /\ pc' = "raised" /\ error' = "ValueError_nclass"
    /\ UNCHANGED <<base_clusters, H, adj_mat, xadj, adjncy, eweights, ran, calls,
                   membership, meta_clusters, M, celabel, result>>

\* cluster_ensembles up to the raise of line 249
RejectSolver ==
    /\ pc = "idle"
    /\ \E arg \in NclassArgs, sv \in SolverArgs :
        /\ valid_nclass(defaulted(arg, base_clusters))
        /\ sv \notin Solvers
        /\ nclass_in' = arg /\ solver' = sv
        /\ nclass' = defaulted(arg, base_clusters)
        /\ pc' = "raised" /\ error' = "ValueError_solver"
    /\ UNCHANGED <<base_clusters, H, adj_mat, xadj, adjncy, eweights, ran, calls,
                   membership, meta_clusters, M, celabel, result>>

\* what the branch of the selected solver can leave behind
dispatch(sv, bcs, n) ==
    CASE sv = "cspa" -> cspa(bcs, n)
      [] sv = "mcla" -> mcla(bcs, n)
      [] sv = "hbgf" -> hbgf(bcs, n)
      [] sv = "nmf" -> nmf(bcs, n)

\* cluster_ensembles through the branch of solver sv: the solver's exception
\* leaves cluster_ensembles as it is, its label vector is returned as it is
Run(sv) ==
    /\ pc = "idle"
    /\ \E arg \in NclassArgs :
        /\ valid_nclass(defaulted(arg, base_clusters))
        /\ nclass_in' = arg /\ solver' = sv
        /\ nclass' = defaulted(arg, base_clusters)
        /\ \E o \in dispatch(sv, base_clusters, defaulted(arg, base_clusters).val) :
            /\ H' = o.H /\ adj_mat' = o.adj_mat
            /\ xadj' = o.xadj /\ adjncy' = o.adjncy /\ eweights' = o.eweights
            /\ ran' = o.ran /\ calls' = o.calls /\ membership' = o.membership
            /\ meta_clusters' = o.meta_clusters /\ M' = o.M
            /\ celabel' = o.celabel
            /\ error' = o.error
            /\ result' = IF o.error = "none" THEN o.celabel ELSE <<>>
            /\ pc' = IF o.error = "none" THEN "done" ELSE "raised"
    /\ UNCHANGED base_clusters

RunCspa == Run("cspa")

RunMcla == Run("mcla")

RunHbgf == Run("hbgf")

RunNmf == Run("nmf")

Next == RejectNclass \/ RejectSolver \/ RunCspa \/ RunMcla \/ RunHbgf \/ RunNmf

Spec == Init /\ [][Next]_vars

\* ------------------------------------------- to_pymetis_format on its own
SquareMatrices == UNION {[1..n -> [1..n -> FmtEntries]] : n \in 0..MaxDim}

InitFmt ==
    /\ pc = "fmt_idle"
    /\ adj_mat \in SquareMatrices
    /\ base_clusters = <<>>
    /\ nclass_in = NoneArg /\ solver = "" /\ nclass = NoneArg
    /\ H = <<>> /\ xadj = <<>> /\ adjncy = <<>> /\ eweights = <<>>
    /\ ran = <<>> /\ calls = <<>> /\ membership = <<>> /\ meta_clusters = <<>> /\ M = <<>>
    /\ celabel = <<>> /\ result = <<>> /\ error = "none"

CallToPymetisFormat ==
    /\ pc = "fmt_idle"
    /\ LET csr == to_pymetis_format(adj_mat)
       IN  xadj' = csr.xadj /\ adjncy' = csr.adjncy /\ eweights' = csr.eweights
    /\ pc' = "fmt_done"
    /\ UNCHANGED <<base_clusters, nclass_in, solver, nclass, H, adj_mat, ran, calls,
                   membership, meta_clusters, M, celabel, result, error>>

NextFmt == CallToPymetisFormat

SpecFmt == InitFmt /\ [][NextFmt]_vars

\* ====================================================================
\* Properties.  The vocabulary below is stated on base_clusters directly,
\* not through the operators above.
\* ====================================================================
NObjects == Len(base_clusters[1])

NRuns == Len(base_clusters)

Labelled(r, i) == base_clusters[r][i] # NaN

\* the distinct non-missing labels of run r, and their number K_r
LabelsOf(r) == {base_clusters[r][i] : i \in {j \in 1..NObjects : Labelled(r, j)}}

K(r) == Cardinality(LabelsOf(r))

\* 0-based rank of label v among the labels of run r
Rank(r, v) == Cardinality({w \in LabelsOf(r) : w < v})

\* number of hypergraph columns of the runs before r
RECURSIVE ColsBefore(_)
ColsBefore(r) == IF r <= 1 THEN 0 ELSE ColsBefore(r - 1) + K(r - 1)

TotalCols == ColsBefore(NRuns + 1)

\* the run a hyperedge (0-based column e) comes from
RunOf(e) == CHOOSE r \in 1..NRuns : ColsBefore(r) <= e /\ e < ColsBefore(r) + K(r)

PositiveInt(a) == a.kind = "int" /\ a.val >= 1

\* positions of adjncy that list the neighbours of node a (0-based)
Span(call, a) == (call.xadj[a + 1] + 1)..call.xadj[a + 2]

NbrSet(call, a) == {call.adjncy[p] : p \in Span(call, a)}

WNbrs(call, a) == {<<call.adjncy[p], call.eweights[p]>> : p \in Span(call, a)}

Nodes(call) == 0..(Len(call.xadj) - 2)

\* C1: a returned consensus label vector has one entry per object, each in
\* [0, nclass), whichever of the four solvers produced it.
C1_LabelVector ==
    pc = "done" =>
        /\ Len(result) = NObjects
        /\ \A i \in 1..NObjects : result[i] \in 0..(nclass.val - 1)

C1_Witness ==
    /\ pc = "done" /\ solver = "nmf" /\ nclass.val = 2 /\ NObjects = 3
    /\ result = <<1, 0, 1>>

\* C2: a class count that is not a positive integer, or a solver name outside
\* the four, ends in the matching ValueError with no solver entered and no
\* partitioner call; otherwise exactly the selected solver is entered and what
\* it returns is returned as it is.
C2_Validation ==
    pc \in {"done", "raised"} =>
        /\ nclass_in.kind # "None" => nclass = nclass_in
        /\ ~PositiveInt(nclass) =>
               /\ pc = "raised" /\ error = "ValueError_nclass"
               /\ ran = <<>> /\ calls = <<>> /\ result = <<>>
        /\ (PositiveInt(nclass) /\ solver \notin {"cspa", "mcla", "hbgf", "nmf"}) =>
               /\ pc = "raised" /\ error = "ValueError_solver"
               /\ ran = <<>> /\ calls = <<>> /\ result = <<>>
        /\ (PositiveInt(nclass) /\ solver \in {"cspa", "mcla", "hbgf", "nmf"}) =>
               /\ ran = <<solver>>
               /\ error \notin {"ValueError_nclass", "ValueError_solver"}
               /\ pc = "done" => (error = "none" /\ result = celabel)

C2_Witness ==
    /\ pc = "raised" /\ error = "ValueError_solver"
    /\ nclass_in = [kind |-> "int", val |-> 2] /\ solver = "kmeans"

\* C3 as claimed: every diagonal entry of the connectivity matrix is exactly 1.
C3_DiagonalIsOne ==
    ran = <<"nmf">> => \A i \in 1..NObjects : M[i][i][1] = M[i][i][2]

\* C3 as the code has it: M[i][i] is the number of runs that gave object i a
\* label, over the number of runs; it is exactly 1 iff no run misses i.
C3_DiagonalIsLabelledFraction ==
    ran = <<"nmf">> =>
        \A i \in 1..NObjects :
            /\ M[i][i] = <<Cardinality({r \in 1..NRuns : Labelled(r, i)}), NRuns>>
            /\ (M[i][i][1] = M[i][i][2]) <=> (\A r \in 1..NRuns : Labelled(r, i))

C3_Witness ==
    /\ ran = <<"nmf">> /\ NRuns = 2 /\ NObjects = 2
    /\ M[1][1] = <<2, 2>> /\ M[2][2] = <<0, 2>>

\* C4: H has one row per object and one column block per run, in run order,
\* block r being K_r wide; entry (i, c) of block r is 1 exactly when run r gave
\* object i its c-th smallest label; a missing label gives an all-zero row
\* segment, a present one exactly one 1.
C4_Hypergraph ==
    (ran # <<>> /\ ran[1] \in {"cspa", "mcla", "hbgf"}) =>
        /\ Len(H) = NObjects
        /\ \A i \in 1..NObjects : Len(H[i]) = TotalCols
        /\ \A r \in 1..NRuns, i \in 1..NObjects :
            /\ \A c \in 1..K(r) :
                 H[i][ColsBefore(r) + c] =
                     IF Labelled(r, i) /\ Rank(r, base_clusters[r][i]) = c - 1
                     THEN 1 ELSE 0
            /\ Cardinality({c \in 1..K(r) : H[i][ColsBefore(r) + c] = 1})
                   = IF Labelled(r, i) THEN 1 ELSE 0

C4_Witness ==
    /\ ran = <<"cspa">> /\ NRuns = 2 /\ NObjects = 2
    /\ base_clusters = <<<<NaN, NaN>>, <<2, 0>>>>
    /\ H = <<<<0, 1>>, <<1, 0>>>>

\* C5: hbgf partitions C + N nodes, cluster nodes first; a cluster node's
\* neighbours are the object nodes it contains and an object node's are the
\* cluster nodes containing it; no edge weights are passed; the value returned
\* is membership[C:], entry i being membership[C + i].
C5_Hbgf ==
    ran = <<"hbgf">> =>
        LET C == TotalCols
            call == calls[1]
        IN  /\ Len(calls) = 1
            /\ Len(call.xadj) = C + NObjects + 1
            /\ ~call.weighted /\ call.eweights = <<>>
            /\ \A a \in Nodes(call) :
                 call.xadj[a + 2] - call.xadj[a + 1] = Cardinality(NbrSet(call, a))
            /\ \A c \in 1..C :
                 NbrSet(call, c - 1) = {C + i - 1 : i \in {j \in 1..NObjects : H[j][c] = 1}}
            /\ \A i \in 1..NObjects :
                 NbrSet(call, C + i - 1) = {c - 1 : c \in {d \in 1..C : H[i][d] = 1}}
            /\ pc = "done" =>
                 /\ Len(membership) = C + NObjects
                 /\ Len(result) = NObjects
                 /\ \A i \in 1..NObjects : result[i] = membership[C + i]

C5_Witness ==
    /\ ran = <<"hbgf">> /\ pc = "done" /\ TotalCols = 3 /\ NObjects = 2
    /\ membership = <<1, 1, 0, 0, 1>> /\ result = <<0, 1>>

\* the largest K_r
MaxK == CHOOSE k \in {K(r) : r \in 1..NRuns} : \A r \in 1..NRuns : K(r) <= k

\* C6: with nclass omitted the class count is the largest number of distinct
\* non-missing labels any run uses, and it is validated like a given one: 0
\* (every label missing) is rejected, anything else passes the validation.
C6_DefaultNclass ==
    (pc \in {"done", "raised"} /\ nclass_in.kind = "None") =>
        /\ nclass = [kind |-> "int", val |-> MaxK]
        /\ MaxK < 1 => (pc = "raised" /\ error = "ValueError_nclass" /\ ran = <<>>)
        /\ MaxK >= 1 => error # "ValueError_nclass"
        /\ (MaxK >= 1 /\ solver \in {"cspa", "mcla", "hbgf", "nmf"}) => ran = <<solver>>

C6_Witness ==
    /\ pc = "raised" /\ error = "ValueError_nclass" /\ nclass_in.kind = "None"
    /\ base_clusters = <<<<NaN, NaN>>, <<NaN, NaN>>>>
    /\ solver = "hbgf" /\ nclass.val = 0 /\ ran = <<>>

\* C7 as claimed: every solve by cspa, mcla or hbgf has called the partitioner
\* exactly once when it ends, and a solve by nmf never has.
C7_ExactlyOneCall ==
    ran # <<>> =>
        /\ solver \in {"cspa", "mcla", "hbgf"} => Len(calls) = 1
        /\ solver = "nmf" => Len(calls) = 0

\* C7 as the code has it: cspa and hbgf call the partitioner exactly once; mcla
\* calls it exactly once when some label is present and not at all when every
\* label is missing (it fails in the distance routine first); nmf never calls
\* it; a partitioner failure ends the solve with that one call made.
C7_OneCallWhenReached ==
    ran # <<>> =>
        /\ solver \in {"cspa", "hbgf"} => Len(calls) = 1
        /\ solver = "mcla" =>
               IF \E r \in 1..NRuns : K(r) > 0
               THEN Len(calls) = 1
               ELSE calls = <<>> /\ pc = "raised" /\ error = "ValueError_samples"
        /\ solver = "nmf" => calls = <<>>
        /\ error = "PartitionerError" =>
               (pc = "raised" /\ Len(calls) = 1 /\ result = <<>>)

C7_Witness ==
    /\ ran = <<"mcla">> /\ pc = "raised" /\ error = "PartitionerError"
    /\ Len(calls) = 1 /\ calls[1].nparts = 2 /\ TotalCols = 4

\* C9: every label mcla returns is a meta-cluster holding the most hyperedges
\* that contain the object, among all nclass meta-clusters.
Count(i, v) ==
    Cardinality({e \in 1..Len(membership) : membership[e] = v /\ H[i][e] = 1})

C9_MclaMajority ==
    (ran = <<"mcla">> /\ pc = "done") =>
        /\ Len(membership) = TotalCols
        /\ \A i \in 1..NObjects :
            /\ result[i] \in 0..(nclass.val - 1)
            /\ \A v \in 0..(nclass.val - 1) :
                 /\ meta_clusters[i][v + 1] = Count(i, v)
                 /\ Count(i, v) <= Count(i, result[i])

\* a tie between meta-clusters 0 and 1 resolved to 1 and, in another run of the
\* same input, to 0 is two states; this one has the tie resolved to the later
\* index, and an object in no hyperedge given label 1
C9_Witness ==
    /\ ran = <<"mcla">> /\ pc = "done" /\ nclass.val = 2 /\ NObjects = 2
    /\ Count(1, 0) = 1 /\ Count(1, 1) = 1 /\ result[1] = 1
    /\ \A r \in 1..NRuns : ~Labelled(r, 2)
    /\ result[2] = 1

\* number of hyperedges containing both objects i and j
Shared(i, j) ==
    Cardinality({r \in 1..NRuns :
        Labelled(r, i) /\ Labelled(r, j) /\ base_clusters[r][i] = base_clusters[r][j]})

\* C10: the graph cspa and mcla pass is symmetric with positive weights; in
\* cspa the weight of (i, j) is the number of hyperedges containing both, an
\* object some run labelled being its own neighbour with the number of runs
\* that labelled it; in mcla every hyperedge is its own neighbour with weight
\* 1000 and hyperedges of one run are never neighbours.
C10_WeightedGraph ==
    (ran # <<>> /\ ran[1] \in {"cspa", "mcla"} /\ calls # <<>>) =>
        LET call == calls[1]
        IN  /\ call.weighted /\ Len(call.eweights) = Len(call.adjncy)
            /\ \A a \in Nodes(call) : \A e \in WNbrs(call, a) :
                 /\ e[2] > 0
                 /\ e[1] \in Nodes(call)
                 /\ <<a, e[2]>> \in WNbrs(call, e[1])
            /\ ran[1] = "cspa" =>
                 /\ Nodes(call) = 0..(NObjects - 1)
                 /\ \A i, j \in 1..NObjects :
                      IF Shared(i, j) > 0
                      THEN {e \in WNbrs(call, i - 1) : e[1] = j - 1} = {<<j - 1, Shared(i, j)>>}
                      ELSE j - 1 \notin NbrSet(call, i - 1)
                 /\ \A i \in 1..NObjects :
                      Shared(i, i) = Cardinality({r \in 1..NRuns : Labelled(r, i)})
            /\ ran[1] = "mcla" =>
                 /\ Nodes(call) = 0..(TotalCols - 1)
                 /\ \A e \in Nodes(call) : <<e, 1000>> \in WNbrs(call, e)
                 /\ \A e, f \in Nodes(call) :
                      (e # f /\ RunOf(e) = RunOf(f)) => f \notin NbrSet(call, e)

C10_Witness ==
    /\ ran = <<"mcla">> /\ pc = "done" /\ TotalCols = 3
    /\ WNbrs(calls[1], 0) = {<<0, 1000>>, <<1, 500>>, <<2, 500>>}
    /\ WNbrs(calls[1], 1) = {<<0, 500>>, <<1, 1000>>}

\* C8: to_pymetis_format returns offsets starting at 0, one more than the rows,
\* non-decreasing and ending at the common length of the neighbour and weight
\* lists; row i's neighbours are the columns of its non-zero entries, strictly
\* ascending, each with that entry as weight; no zero entry is listed.
C8_PymetisFormat ==
    pc = "fmt_done" =>
        LET n == Len(adj_mat)
        IN  /\ Len(xadj) = n + 1 /\ xadj[1] = 0
            /\ \A k \in 1..n : xadj[k] <= xadj[k + 1]
            /\ xadj[n + 1] = Len(adjncy) /\ Len(adjncy) = Len(eweights)
            /\ \A i \in 1..n :
                 /\ {adjncy[p] : p \in (xadj[i] + 1)..xadj[i + 1]}
                        = {j - 1 : j \in {c \in 1..n : adj_mat[i][c] # 0}}
                 /\ \A p \in (xadj[i] + 1)..(xadj[i + 1] - 1) : adjncy[p] < adjncy[p + 1]
                 /\ \A p \in (xadj[i] + 1)..xadj[i + 1] :
                      /\ eweights[p] = adj_mat[i][adjncy[p] + 1]
                      /\ eweights[p] # 0

C8_Witness ==
    /\ pc = "fmt_done" /\ adj_mat = <<<<0, 2>>, <<1, 1>>>>
    /\ xadj = <<0, 1, 3>> /\ adjncy = <<1, 0, 1>> /\ eweights = <<2, 1, 1>>

====
